---------------------------- MODULE Spec2Model ----------------------------
(***************************************************************************)
(* NetworkTool: the diagnostics facade of modules/network_diagnostics.py   *)
(* (speed_test, latency_check, packet_loss_analysis, route_tracing,        *)
(* network_scan) and the port sweep of modules/website_analysis.py         *)
(* (scan_single_port, scan_ports).                                         *)
(*                                                                         *)
(* One behaviour is one call of one operation, or one "Run All             *)
(* Diagnostics" of the diagnostics menu (network_utility.py), which calls  *)
(* the five diagnostics one after the other.  The sequential operations    *)
(* are operators applied to what the platform command answered; the two    *)
(* sweeps run on a concurrent.futures.ThreadPoolExecutor and are modelled  *)
(* step by step: the calling thread's position is pc, every submitted      *)
(* probe unit has a state of its own.                                      *)
(*                                                                         *)
(* Python values: a dict is a record whose DOMAIN is its key set, a list   *)
(* is a sequence, a float that comes out of a division is the exact        *)
(* fraction <<numerator, denominator>> (binary rounding is not modelled).  *)
(***************************************************************************)
EXTENDS Integers, Sequences, FiniteSets, TLC

VARIABLES
    op,         \* the operation this call runs ("none" before the call)
    pc,         \* position of the calling thread
    os_name,    \* self.os_name = platform.system()
    args,       \* the call's arguments and what the platform command answered
    ret,        \* what the call handed back: [kind |-> "none" | "value" | "raise", ...]
    results,    \* the local value under construction: network_scan's and
                \* scan_ports' `results`, route_tracing's `hops`
    hosts,      \* network_scan: list(network.hosts())[:total_ips]; scan_ports: ports, each as [port]
    submitted,  \* how many entries of hosts have been handed to executor.submit
    unit,       \* unit[i]: state of the future of hosts[i]
    outcome,    \* outcome[i]: what the probe unit of hosts[i] returned or raised
    consumed,   \* indices whose future the as_completed loop has taken
    executor,   \* "none" | "open" | "shutdown": the ThreadPoolExecutor of this call
    pending_exc,\* the exception travelling up the calling thread, if any
    menu        \* the diagnostics menu: its choice, the stage of "Run All
                \* Diagnostics", its `results` dict and what it has displayed

vars == <<op, pc, os_name, args, ret, results, hosts, submitted, unit, outcome,
          consumed, executor, pending_exc, menu>>

-----------------------------------------------------------------------------
(* Bounds of the model. *)

\* packets: the requested packet counts are at most MaxPackets, and ping
\* reports counts in 0..MaxPackets.
MaxPackets == 10

\* network_scan probes at most this many hosts of a subnet.  It stands for the
\* 254 of `min(254, len(list(network.hosts())))`, scaled so that a subnet of the
\* model has more hosts than the cap.
MaxScanHosts == 4

\* The ceiling of network_scan's pool.  It stands for max_workers=20, scaled so
\* that a batch of the model is larger than the pool.
ScanMaxWorkers == 2

\* The ceiling of scan_ports' pool.  It stands for max_workers=10, scaled alike.
PortsMaxWorkers == 3

\* scan_ports is called with at most this many ports.
MaxPorts == 4

\* tracert / traceroute print at most this many hop lines.
MaxLines == 2
MenuPorts == 2
MaxExports == 1

-----------------------------------------------------------------------------
(* Python values. *)

NoValue == [kind |-> "none"]
Return(v) == [kind |-> "value", value |-> v]
Raise(e) == [kind |-> "raise", exc |-> e]

\* float results: n / d with d > 0, kept exact.
Frac(n, d) == <<n, d>>
FracEq(a, b) == a[1] * b[2] = b[1] * a[2]
FracLe(a, b) == a[1] * b[2] <= b[1] * a[2]

os_names == {"Windows", "Linux"}

-----------------------------------------------------------------------------
(* The diagnostics menu (network_utility.py): a single diagnostic, or choice *)
(* "6", Run All Diagnostics.                                                 *)

\* The five stages of Run All Diagnostics in statement order: the key of the
\* menu's `results` dict and the method called.
RunAllStages ==
    <<[key |-> "Speed Test", call |-> "speed_test"],
      [key |-> "Latency Check", call |-> "latency_check"],
      [key |-> "Packet Loss", call |-> "packet_loss_analysis"],
      [key |-> "Route Tracing", call |-> "route_tracing"],
      [key |-> "Network Scan", call |-> "network_scan"]>>

\* The six stages of the website menu's Run All Analyses in statement order.
WebsiteStages ==
    <<[key |-> "Domain IP", call |-> "get_domain_ip"],
      [key |-> "DNS Records", call |-> "get_dns_records"],
      [key |-> "Ping Test", call |-> "ping_test"],
      [key |-> "Port Scan", call |-> "scan_ports"],
      [key |-> "WHOIS Info", call |-> "get_whois_info"],
      [key |-> "SSL Info", call |-> "get_ssl_info"]>>

\* The menu a session is in (menu.name) lists its analyses as choices "1",
\* "2", ... in the order of its stages, then Run All, then Export Results.
Stages == IF menu.name = "website" THEN WebsiteStages ELSE RunAllStages

Digits == <<"1", "2", "3", "4", "5", "6", "7", "8">>

RunAllChoice == Digits[Len(Stages) + 1]

ExportChoice == Digits[Len(Stages) + 2]

InSession == menu.name # "none"

\* The calling statement of `call` is the one the menu has reached: any
\* method when no menu is open and no choice was made, under Run All the
\* statement of the current stage, under a single analysis its own statement.
Chosen(call) ==
    IF menu.choice = "none" THEN TRUE
    ELSE /\ menu.stage \in DOMAIN Stages
         /\ Stages[menu.stage].call = call
         /\ menu.choice \in {RunAllChoice, Digits[menu.stage]}

\* The inputs of a call: `all` for a call on its own, the cases `few` of them
\* for a call made from a menu (several calls in a row).
Env(all, few) == IF menu.choice = "none" THEN all ELSE few

-----------------------------------------------------------------------------
(* packet_loss_analysis *)

\* What `subprocess.check_output(ping ...)` and the statistics regex can give:
\* the command raised (non-zero exit status, no executable), its output holds no
\* statistics line of this OS family's grammar, or it holds one.  Windows ping
\* prints Sent, Received and Lost = Sent - Received; POSIX ping prints the
\* transmitted and received counts, with (BSD, busybox) or without (iputils)
\* the word "packets" in front of "received".
PingOutputs ==
    {[kind |-> "raise"], [kind |-> "nomatch"]}
    \cup {[kind |-> "stats", sent |-> s, received |-> r, lost |-> s - r, word |-> w] :
             s \in 0..MaxPackets, r \in 0..MaxPackets, w \in {"", "packets "}}

\* Run All Diagnostics: packet_loss_analysis("google.com", 50); the count is
\* scaled to the largest of the model.
RunAllPackets == MaxPackets

RunAllPingOutputs ==
    {o \in PingOutputs :
        /\ o.kind \in {"raise", "stats"}
        /\ o.kind = "stats" => (o.sent = RunAllPackets /\ o.received = o.sent /\ o.word = "")}

PingStats(o) == o.kind = "stats" => o.received <= o.sent

\* packets comes from click.prompt(..., type=int), which takes any integer;
\* ping refuses a negative count and exits with an error status.
PacketCounts == (-1)..MaxPackets

PingRuns(packets, o) == packets < 0 => o.kind = "raise"

\* result = {"sent": packets, "received": 0, "lost": 0, "loss_percentage": 0.0}
pla_result_init(packets) ==
    [sent |-> packets, received |-> 0, lost |-> 0, loss_percentage |-> Frac(0, 1)]

\* (result["lost"] / result["sent"]) * 100: ZeroDivisionError when sent is 0.
pla_loss_percentage(r) ==
    IF r.sent = 0 THEN Raise("ZeroDivisionError")
    ELSE Return(Frac(r.lost * 100, r.sent))

\* The Windows branch of the try block, after the command returned `out`.
pla_parse_windows(result, out) ==
    IF out.kind = "stats"
    THEN LET r == [result EXCEPT !.sent = out.sent, !.received = out.received,
                                 !.lost = out.lost]
             p == pla_loss_percentage(r)
         IN  IF p.kind = "raise" THEN [exc |-> TRUE, result |-> r]
             ELSE [exc |-> FALSE, result |-> [r EXCEPT !.loss_percentage = p.value]]
    ELSE [exc |-> FALSE, result |-> result]

\* A statistics pattern that insists on the word "packets".
pla_match_posix_strict(out) == out.kind = "stats" /\ out.word = "packets "

\* re.search(r"(\d+) packets transmitted, (\d+) [packets ]*received", output):
\* the class [packets ]* takes the word "packets " and the empty text alike.
pla_match_posix(out) == out.kind = "stats" /\ out.word \in {"", "packets "}

\* The Linux/macOS branch: lost = sent - received.
pla_parse_posix(result, out) ==
    IF pla_match_posix(out)
    THEN LET r == [result EXCEPT !.sent = out.sent, !.received = out.received,
                                 !.lost = out.sent - out.received]
             p == pla_loss_percentage(r)
         IN  IF p.kind = "raise" THEN [exc |-> TRUE, result |-> r]
             ELSE [exc |-> FALSE, result |-> [r EXCEPT !.loss_percentage = p.value]]
    ELSE [exc |-> FALSE, result |-> result]

\* except Exception as e: result["error"] = str(e); result["loss_percentage"] = 100.0
pla_except(result) ==
    Return([k \in DOMAIN result \cup {"error"} |->
               IF k = "error" THEN "str(e)"
               ELSE IF k = "loss_percentage" THEN Frac(100, 1)
               ELSE result[k]])

\* The whole function: what it hands back to its caller.
pla(os, packets, out) ==
    LET result == pla_result_init(packets)
        body == IF out.kind = "raise" THEN [exc |-> TRUE, result |-> result]
                ELSE IF os = "Windows" THEN pla_parse_windows(result, out)
                ELSE pla_parse_posix(result, out)
    IN  IF body.exc THEN pla_except(body.result) ELSE Return(body.result)

packet_loss_analysis ==
    /\ pc = "idle"
    /\ Chosen("packet_loss_analysis")
    /\ \E os \in Env(os_names, {os_name}),
          packets \in Env(PacketCounts, {RunAllPackets}),
          out \in Env(PingOutputs, RunAllPingOutputs) :
         /\ PingStats(out)
         /\ PingRuns(packets, out)
         /\ os_name' = os
         /\ op' = "packet_loss_analysis"
         /\ args' = [packets |-> packets, out |-> out]
         /\ ret' = pla(os, packets, out)
    /\ pc' = "done"
    /\ UNCHANGED <<results, hosts, submitted, unit, outcome, consumed, executor, pending_exc>>
    /\ UNCHANGED menu

-----------------------------------------------------------------------------
(* speed_test *)

\* What the three HTTP exchanges can give: requests.get / requests.post raise, or
\* take `time` clock units; the download streams `bytes` bytes, and may raise
\* while streaming.
SpeedRuns ==
    [ping : {[ok |-> FALSE, time |-> 0], [ok |-> TRUE, time |-> 1]},
     download : {[ok |-> FALSE, bytes |-> 0, time |-> 0],
                 [ok |-> TRUE, bytes |-> 0, time |-> 0],
                 [ok |-> TRUE, bytes |-> 1024, time |-> 2]},
     upload : {[ok |-> FALSE, time |-> 0], [ok |-> TRUE, time |-> 0],
               [ok |-> TRUE, time |-> 2]}]

\* Run All Diagnostics: the request of the first exchange fails or all succeed.
RunAllSpeedRuns == {r \in SpeedRuns : r.download.time > 0 /\ r.upload.time > 0}

\* upload_size = 1 * 1024 * 1024
upload_size == 1048576

\* A handler that starts again from the initial result.
st_except_reset(result) ==
    Return([download |-> Frac(0, 1), upload |-> Frac(0, 1), ping |-> Frac(0, 1),
            error |-> "str(e)"])

\* except Exception as e: result["error"] = str(e)
st_except(result) ==
    Return([k \in DOMAIN result \cup {"error"} |->
               IF k = "error" THEN "str(e)" ELSE result[k]])

\* The whole function.  A stage that raises ends the try block; a speed is
\* computed only when its elapsed time is positive.
st(run) ==
    LET r0 == [download |-> Frac(0, 1), upload |-> Frac(0, 1), ping |-> Frac(0, 1)]
        r1 == [r0 EXCEPT !.ping = Frac(run.ping.time * 1000, 1)]
        r2 == IF run.download.time > 0
              THEN [r1 EXCEPT !.download =
                       Frac(run.download.bytes * 8, run.download.time * 1000000)]
              ELSE r1
        r3 == IF run.upload.time > 0
              THEN [r2 EXCEPT !.upload =
                       Frac(upload_size * 8, run.upload.time * 1000000)]
              ELSE r2
    IN  IF ~run.ping.ok THEN st_except(r0)
        ELSE IF ~run.download.ok THEN st_except(r1)
        ELSE IF ~run.upload.ok THEN st_except(r2)
        ELSE Return(r3)

speed_test ==
    /\ pc = "idle"
    /\ Chosen("speed_test")
    /\ \E run \in Env(SpeedRuns, RunAllSpeedRuns) :
         /\ args' = [run |-> run]
         /\ ret' = st(run)
    /\ op' = "speed_test"
    /\ pc' = "done"
    /\ UNCHANGED <<os_name, results, hosts, submitted, unit, outcome, consumed,
                   executor, pending_exc>>
    /\ UNCHANGED menu

-----------------------------------------------------------------------------
(* latency_check *)

\* The ping command raised, its output is bytes that .decode() rejects (a
\* localised Windows prints accented letters in the console code page), it holds
\* no summary line of this OS family's grammar, or it holds one with the three
\* numbers in the order the family prints them.
LatencyOutputs ==
    {[kind |-> k, groups |-> <<>>] : k \in {"raise", "undecodable", "nomatch"}}
    \cup {[kind |-> "times", groups |-> <<a, b, c>>] : a, b, c \in 1..2}

RunAllLatencyOutputs ==
    {o \in LatencyOutputs :
        /\ o.kind \in {"raise", "times"}
        /\ o.kind = "times" => o.groups = <<1, 1, 1>>}

\* except Exception as e: result["error"] = str(e)
lc_except(result) ==
    Return([k \in DOMAIN result \cup {"error"} |->
               IF k = "error" THEN "str(e)" ELSE result[k]])

\* The three groups read in the order min, avg, max whatever the family.
lc_fields_positional(g) ==
    [min |-> Frac(g[1], 1), avg |-> Frac(g[2], 1), max |-> Frac(g[3], 1)]

\* Windows prints Minimum, Maximum, Average: groups 1, 2, 3 are min, max, avg.
lc_fields_windows(g) ==
    [min |-> Frac(g[1], 1), max |-> Frac(g[2], 1), avg |-> Frac(g[3], 1)]

\* POSIX prints min/avg/max: groups 1, 2, 3 are min, avg, max.
lc_fields_posix(g) ==
    [min |-> Frac(g[1], 1), avg |-> Frac(g[2], 1), max |-> Frac(g[3], 1)]

lc(os, out) ==
    LET result == [min |-> Frac(0, 1), avg |-> Frac(0, 1), max |-> Frac(0, 1)]
    IN  IF out.kind \in {"raise", "undecodable"} THEN lc_except(result)
        ELSE IF out.kind = "nomatch" THEN Return(result)
        ELSE IF os = "Windows" THEN Return(lc_fields_windows(out.groups))
        ELSE Return(lc_fields_posix(out.groups))

latency_check ==
    /\ pc = "idle"
    /\ Chosen("latency_check")
    /\ \E os \in Env(os_names, {os_name}), out \in Env(LatencyOutputs, RunAllLatencyOutputs) :
         /\ os_name' = os
         /\ args' = [out |-> out]
         /\ ret' = lc(os, out)
    /\ op' = "latency_check"
    /\ pc' = "done"
    /\ UNCHANGED <<results, hosts, submitted, unit, outcome, consumed, executor,
                   pending_exc>>
    /\ UNCHANGED menu

-----------------------------------------------------------------------------
(* route_tracing *)

\* A line of tracert / traceroute output.  "header" is a line the loop skips,
\* "other" a line the hop regex does not match, "hop" a hop line: its three
\* timing fields in print order and whether the reverse lookup of its address
\* gives a name.  A timing field is a number, "*", or text the regex admits and
\* float() rejects ("**" on Windows, "1.2.3" on POSIX); `ms` tells whether " ms"
\* follows it.
TimeFields ==
    {[text |-> "num", value |-> v, ms |-> TRUE] : v \in {2, 4}}
    \cup {[text |-> "*", value |-> 0, ms |-> m] : m \in BOOLEAN}
    \cup {[text |-> "bad", value |-> 0, ms |-> TRUE]}

RouteLines ==
    {[kind |-> k, times |-> <<>>, resolves |-> FALSE] : k \in {"header", "other"}}
    \cup {[kind |-> "hop", times |-> <<a, b, c>>, resolves |-> r] :
             a, b, c \in TimeFields, r \in BOOLEAN}

RunAllRouteLines ==
    {l \in RouteLines :
        l.kind = "hop" => (~l.resolves /\ \A k \in 1..3 : l.times[k].value = 2)}

\* Windows: ^\s*(\d+)\s+(\d+|[*]+)\s+ms\s+(\d+|[*]+)\s+ms\s+(\d+|[*]+)\s+ms\s+(.+)$
\* every timing field must be digits or stars, and be followed by " ms".
rt_match_windows(line) ==
    /\ line.kind = "hop"
    /\ \A k \in 1..3 : line.times[k].ms

\* POSIX: ^\s*(\d+)\s+([^\s]+)(?:\s+\(([^\)]+)\))?\s+(?:([0-9.]+)\s+ms\s+)+
\* traceroute prints the address in front of the first answered probe, so the
\* token after the hop number is followed by "<number> ms" only when the first
\* probe was answered.
rt_match_posix(line) ==
    /\ line.kind = "hop"
    /\ line.times[1].text # "*"

\* Every timing field kept, an unanswered probe as a sample of 0.
rt_times_star_zero(line) == line.times

\* Windows: times = [t for t in groups if t != "*"]
\* POSIX:   times = re.findall(r"([0-9.]+)\s+ms", line)
rt_times(line) == SelectSeq(line.times, LAMBDA t : t.text # "*")

RECURSIVE rt_sum(_)
rt_sum(times) == IF times = <<>> THEN 0 ELSE Head(times).value + rt_sum(Tail(times))

\* avg_time = sum(map(float, times)) / len(times) if times else 0
rt_avg_time(times) ==
    IF \E k \in 1..Len(times) : times[k].text = "bad" THEN Raise("ValueError")
    ELSE IF times = <<>> THEN Return(Frac(0, 1))
    ELSE Return(Frac(rt_sum(times), Len(times)))

\* One turn of the loop over output.splitlines(): the hop appended, nothing
\* appended ("skip"), or the exception that leaves the loop.
rt_parse_line(os, n, line) ==
    IF ~(IF os = "Windows" THEN rt_match_windows(line) ELSE rt_match_posix(line))
    THEN [kind |-> "skip"]
    ELSE LET avg == rt_avg_time(rt_times(line))
         IN  IF avg.kind = "raise" THEN avg
             ELSE Return([hop |-> n,
                          host |-> IF line.resolves THEN "name" ELSE "ip",
                          ip |-> "ip",
                          time |-> avg.value])

\* except Exception as e: hops.append({"hop": 1, "host": "Error", ...})
rt_except(hops) ==
    Return(Append(hops, [hop |-> 1, host |-> "Error", ip |-> "Error",
                         time |-> Frac(0, 1), error |-> "str(e)"]))

\* hops = []; the command runs: it raises, its output is bytes that .decode()
\* rejects, or the output is split into lines.  `matched` counts the lines the
\* hop regex has matched and `line` is the line the loop read last.
route_tracing ==
    /\ pc = "idle"
    /\ Chosen("route_tracing")
    /\ \E os \in Env(os_names, {os_name}), raised \in BOOLEAN,
          decoded \in Env(BOOLEAN, {TRUE}) :
         /\ InSession => ~raised
         /\ raised => decoded
         /\ os_name' = os
         /\ args' = [raised |-> raised, decoded |-> decoded, matched |-> 0,
                     line |-> NoValue]
         /\ IF raised \/ ~decoded
            THEN /\ ret' = rt_except(<<>>)
                 /\ pc' = "done"
            ELSE /\ ret' = ret
                 /\ pc' = "rt_lines"
    /\ op' = "route_tracing"
    /\ results' = [hops |-> <<>>, lines |-> 0]
    /\ UNCHANGED <<hosts, submitted, unit, outcome, consumed, executor, pending_exc>>
    /\ UNCHANGED menu

\* The next line of the output; hop lines are numbered in print order.
rt_line ==
    /\ pc = "rt_lines"
    /\ results.lines < MaxLines
    /\ \E line \in Env(RouteLines, RunAllRouteLines) :
         LET n == results.lines + 1
             parsed == rt_parse_line(os_name, n, line)
         IN  /\ IF parsed.kind = "raise"
                THEN /\ ret' = rt_except(results.hops)
                     /\ pc' = "done"
                     /\ UNCHANGED results
                ELSE /\ results' =
                           [hops |-> IF parsed.kind = "skip" THEN results.hops
                                     ELSE Append(results.hops, parsed.value),
                            lines |-> IF line.kind = "hop" THEN n ELSE results.lines]
                     /\ UNCHANGED <<ret, pc>>
             /\ args' = [args EXCEPT !.matched =
                                         IF parsed.kind = "skip" THEN @ ELSE @ + 1,
                                     !.line = line]
    /\ UNCHANGED <<op, os_name, hosts, submitted, unit, outcome, consumed,
                   executor, pending_exc>>
    /\ UNCHANGED menu

\* The output has no more lines: return hops.
rt_return ==
    /\ pc = "rt_lines"
    /\ ret' = Return(results.hops)
    /\ pc' = "done"
    /\ UNCHANGED <<op, os_name, args, results, hosts, submitted, unit, outcome,
                   consumed, executor, pending_exc>>
    /\ UNCHANGED menu

-----------------------------------------------------------------------------
(* Addresses and subnets: the ipaddress module as network_scan uses it. *)

RECURSIVE Pow2(_)
Pow2(n) == IF n = 0 THEN 1 ELSE 2 * Pow2(n - 1)

Min(a, b) == IF a <= b THEN a ELSE b

max_prefixlen(version) == IF version = 4 THEN 32 ELSE 128

\* 10.0.0.0 as an integer.
Net10 == 10 * Pow2(24)

\* subnet="192.168.1.0/24", the default of network_scan (the menu's Run All
\* Diagnostics passes no subnet).  The prefix is lengthened to keep two hosts,
\* and the first component is 10: 192 * 2^24 is no 32-bit signed integer.
DefaultSubnet ==
    [form |-> "cidr", version |-> 4,
     address |-> Net10 + 168 * Pow2(16) + 256, prefixlen |-> 30]

\* The subnet strings of the model.  A CIDR string is its version, the address
\* before the slash and the prefix length after it; "not-a-subnet" is none.
SubnetStrings ==
    {[form |-> "garbage"], DefaultSubnet,
     [form |-> "cidr", version |-> 4, address |-> Net10, prefixlen |-> 33],
     [form |-> "cidr", version |-> 4, address |-> Net10 + 1, prefixlen |-> 32],
     [form |-> "cidr", version |-> 4, address |-> Net10, prefixlen |-> 31],
     [form |-> "cidr", version |-> 4, address |-> Net10 + 5, prefixlen |-> 30],
     [form |-> "cidr", version |-> 4, address |-> Net10, prefixlen |-> 29],
     [form |-> "cidr", version |-> 6, address |-> 1, prefixlen |-> 128],
     [form |-> "cidr", version |-> 6, address |-> 0, prefixlen |-> 126]}

\* A parse that falls back to a default network instead of raising.
ip_network_fallback(subnet) ==
    IF subnet.form # "cidr" \/ subnet.prefixlen > max_prefixlen(subnet.version)
    THEN Return([version |-> 4, network_address |-> Net10, num_addresses |-> 2])
    ELSE LET size == Pow2(max_prefixlen(subnet.version) - subnet.prefixlen)
         IN  Return([version |-> subnet.version,
                     network_address |-> subnet.address - (subnet.address % size),
                     num_addresses |-> size])

\* ipaddress.ip_network(subnet, strict=False): ValueError unless the string is a
\* CIDR string with a prefix length the version allows; the host bits of the
\* address are masked off.
ip_network(subnet) ==
    IF subnet.form # "cidr" THEN Raise("ValueError")
    ELSE IF subnet.prefixlen > max_prefixlen(subnet.version) THEN Raise("ValueError")
    ELSE LET host_bits == max_prefixlen(subnet.version) - subnet.prefixlen
             size == Pow2(host_bits)
         IN  Return([version |-> subnet.version,
                     network_address |-> subnet.address - (subnet.address % size),
                     num_addresses |-> size])

\* list(network.hosts()): a one-address network is its address, a two-address
\* network both addresses; otherwise IPv4 leaves out the network and the
\* broadcast address, IPv6 the network address only.
network_hosts(network) ==
    LET n == network.num_addresses
        first == IF n <= 2 THEN 0 ELSE 1
        last == IF n <= 2 \/ network.version = 6 THEN n - 1 ELSE n - 2
    IN  [i \in 1..(last - first + 1) |->
            [version |-> network.version,
             addr |-> network.network_address + first + i - 1]]

\* total_ips = min(254, len(list(network.hosts())))
total_ips(network) == Min(MaxScanHosts, Len(network_hosts(network)))

\* hosts = list(network.hosts())[:total_ips]
ns_hosts(network) == SubSeq(network_hosts(network), 1, total_ips(network))

\* str(ip): the dotted quad of an IPv4 address, as the list of its four
\* components; the colon-separated text of an IPv6 address holds no dot.
ip_str(ip) ==
    IF ip.version = 4
    THEN [dotted |-> TRUE,
          parts |-> <<ip.addr \div Pow2(24), (ip.addr \div Pow2(16)) % 256,
                      (ip.addr \div 256) % 256, ip.addr % 256>>]
    ELSE [dotted |-> FALSE, parts |-> <<ip.addr>>]

\* key=lambda x: [int(part) for part in x["ip"].split('.')]: int() raises
\* ValueError on a part that is not a decimal number.
sort_key(device) ==
    IF device.ip.dotted THEN Return(device.ip.parts) ELSE Raise("ValueError")

\* Python's list comparison a < b.
RECURSIVE list_less(_, _)
list_less(a, b) ==
    IF b = <<>> THEN FALSE
    ELSE IF a = <<>> THEN TRUE
    ELSE IF Head(a) # Head(b) THEN Head(a) < Head(b)
    ELSE list_less(Tail(a), Tail(b))

\* list.sort(key=...): stable, ascending by key.
RECURSIVE insert_sorted(_, _)
insert_sorted(sorted, d) ==
    IF sorted = <<>> THEN <<d>>
    ELSE IF list_less(sort_key(d).value, sort_key(Head(sorted)).value)
         THEN <<d>> \o sorted
         ELSE <<Head(sorted)>> \o insert_sorted(Tail(sorted), d)

RECURSIVE list_sort(_)
list_sort(devices) ==
    IF devices = <<>> THEN <<>>
    ELSE insert_sorted(list_sort(SubSeq(devices, 1, Len(devices) - 1)),
                       devices[Len(devices)])

-----------------------------------------------------------------------------
(* The ThreadPoolExecutor of one sweep. *)

PyNone == [none |-> TRUE]

Units == DOMAIN unit

\* The probe units a worker thread is executing; a unit whose command never
\* returns keeps its thread.
Executing == {i \in Units : unit[i] \in {"running", "hung"}}

\* Work a shutdown(wait=True) still waits for.
Unfinished == {i \in Units : unit[i] \in {"queued", "running", "hung"}}

\* A shutdown that does not wait for the pool's work.
shutdown_nowait == TRUE

\* ThreadPoolExecutor.__exit__ is shutdown(wait=True): it returns once no
\* submitted unit is queued or running; queued units are not cancelled.
shutdown_returns == Unfinished = {}

\* A pool created without the ceiling of this sweep.
max_workers_unbounded == Cardinality(Units) + 1

max_workers == IF op = "network_scan" THEN ScanMaxWorkers ELSE PortsMaxWorkers

\* _adjust_thread_count: a thread is started for a submitted item only while
\* fewer than max_workers threads exist; each thread runs one item at a time.
worker_available == Cardinality(Executing) < max_workers

\* executor.submit(...) for the next entry of hosts, in the dict comprehension.
Submit ==
    /\ pc = "submit"
    /\ submitted < Len(hosts)
    /\ submitted' = submitted + 1
    /\ unit' = [unit EXCEPT ![submitted + 1] = "queued"]
    /\ UNCHANGED <<op, pc, os_name, args, ret, results, hosts, outcome, consumed,
                   executor, pending_exc>>
    /\ UNCHANGED menu

\* The comprehension is exhausted: the as_completed loop begins.
SubmitDone ==
    /\ pc = "submit"
    /\ submitted = Len(hosts)
    /\ pc' = "collect"
    /\ UNCHANGED <<op, os_name, args, ret, results, hosts, submitted, unit, outcome,
                   consumed, executor, pending_exc>>
    /\ UNCHANGED menu

\* A worker thread takes the oldest item of the work queue.
Start(i) ==
    /\ unit[i] = "queued"
    /\ \A j \in Units : unit[j] = "queued" => i <= j
    /\ worker_available
    /\ unit' = [unit EXCEPT ![i] = "running"]
    /\ UNCHANGED <<op, pc, os_name, args, ret, results, hosts, submitted, outcome,
                   consumed, executor, pending_exc>>
    /\ UNCHANGED menu

\* A probe that reports a device only when its name lookup did not raise.
check_ip_named(ip, response, fqdn) ==
    IF response = 0 /\ fqdn # "raise"
    THEN Return([ip |-> ip_str(ip), status |-> "Ativo",
                 hostname |-> IF fqdn = "same" THEN "N/A" ELSE fqdn])
    ELSE Return(PyNone)

\* check_ip(ip): os.system(ping) gives the exit status, socket.getfqdn the host
\* name ("N/A" when it gives the address back or raises); a device dict on exit
\* status 0, None otherwise.
check_ip(ip, response, fqdn) ==
    LET hostname == IF fqdn = "same" \/ fqdn = "raise" THEN "N/A" ELSE fqdn
    IN  IF response = 0
        THEN Return([ip |-> ip_str(ip), status |-> "Ativo", hostname |-> hostname])
        ELSE Return(PyNone)

\* scan_single_port(port): connect_ex gives 0 (Open), an errno (Closed: refused,
\* timed out), or raises: socket.gaierror when the domain does not resolve,
\* OverflowError when the port is not in 0..65535.
scan_single_port(port, connect_ex) ==
    IF connect_ex.raised THEN Raise("gaierror")
    ELSE IF port \notin 0..65535 THEN Raise("OverflowError")
    ELSE IF connect_ex.errno = 0 THEN Return(<<port, "Open">>)
    ELSE Return(<<port, "Closed">>)

\* The socket that scan_single_port created, when the function is left:
\* sock.close() is the first statement of both branches of `if result == 0`,
\* which an exception of connect_ex never reaches.
ssp_socket(port, connect_ex) ==
    IF scan_single_port(port, connect_ex).kind = "raise" THEN "open" ELSE "closed"

\* connect_ex((self.domain, port)) under settimeout(1): 0, ECONNREFUSED (111),
\* EAGAIN (11) on timeout, or socket.gaierror raised by the name lookup.
ConnectResults ==
    {[raised |-> TRUE, errno |-> 0]}
    \cup {[raised |-> FALSE, errno |-> e] : e \in {0, 11, 111}}

\* What the platform can answer a running unit: for check_ip the exit status
\* of ping and what socket.getfqdn gives, for scan_single_port what connect_ex
\* gives.  In a menu
\* session every probe is answered, or the domain of the port scan does not
\* resolve.
UnitAnswers ==
    IF op = "network_scan"
    THEN IF InSession THEN [response : {0}, fqdn : {"host.lan"}]
         ELSE [response : {0, 1}, fqdn : {"same", "raise", "host.lan"}]
    ELSE IF InSession THEN {c \in ConnectResults : c.errno = 0}
    ELSE ConnectResults

\* What the unit of hosts[i] comes back with on the answer a.
UnitResult(i, a) ==
    IF op = "network_scan" THEN check_ip(hosts[i], a.response, a.fqdn)
    ELSE scan_single_port(hosts[i].port, a)

\* What a running unit can come back with.
UnitOutcomes(i) == {UnitResult(i, a) : a \in UnitAnswers}

\* The unit's function returns or raises: the future is finished.  args keeps
\* what the platform answered: of a probe the exit status of ping, of a port
\* what connect_ex gave, and the state the port's socket is left in.
Finish(i) ==
    /\ unit[i] = "running"
    /\ \E a \in UnitAnswers :
         /\ outcome' = [outcome EXCEPT ![i] = UnitResult(i, a)]
         /\ args' = [args EXCEPT !.answers[i] =
                         IF op = "network_scan" THEN [response |-> a.response]
                         ELSE [raised |-> a.raised, errno |-> a.errno,
                               sock |-> ssp_socket(hosts[i].port, a)]]
    /\ unit' = [unit EXCEPT ![i] = "done"]
    /\ UNCHANGED <<op, pc, os_name, ret, results, hosts, submitted, consumed,
                   executor, pending_exc>>
    /\ UNCHANGED menu

\* The unit's command or name lookup never returns.
Hang(i) ==
    /\ unit[i] = "running"
    /\ unit' = [unit EXCEPT ![i] = "hung"]
    /\ UNCHANGED <<op, pc, os_name, args, ret, results, hosts, submitted, outcome,
                   consumed, executor, pending_exc>>
    /\ UNCHANGED menu

-----------------------------------------------------------------------------
(* network_scan *)

\* except ValueError: the report for a subnet that does not parse.
ns_invalid_subnet(subnet) ==
    [error |-> "Subrede invalida", active_devices |-> <<>>, total_scanned |-> 0]

\* An outer handler that lets the exception go on to the caller.
ns_except_reraise(e) == Raise(e)

\* except Exception as e: the report of the outer handler.
ns_except(e) ==
    Return([error |-> "Erro ao escanear a rede", active_devices |-> <<>>,
            total_scanned |-> 0, total_active |-> 0])

\* Lines 305-340: the subnet is parsed; on ValueError the call returns at once,
\* otherwise the pool is created, hosts is cut to total_ips and total_scanned set.
network_scan ==
    /\ pc = "idle"
    /\ Chosen("network_scan")
    /\ \E os \in Env(os_names, {os_name}), subnet \in Env(SubnetStrings, {DefaultSubnet}) :
         LET network == ip_network(subnet)
         IN  /\ os_name' = os
             /\ op' = "network_scan"
             /\ args' = [subnet |-> subnet,
                         answers |-> IF network.kind = "raise" THEN <<>>
                                     ELSE [i \in 1..total_ips(network.value) |-> NoValue]]
             /\ IF network.kind = "raise"
                THEN /\ ret' = Return(ns_invalid_subnet(subnet))
                     /\ pc' = "done"
                     /\ UNCHANGED <<results, hosts, unit, outcome, executor>>
                ELSE /\ hosts' = ns_hosts(network.value)
                     /\ results' = [active_devices |-> <<>>,
                                    total_scanned |-> Len(hosts')]
                     /\ unit' = [i \in 1..Len(hosts') |-> "new"]
                     /\ outcome' = [i \in 1..Len(hosts') |-> NoValue]
                     /\ executor' = "open"
                     /\ pc' = "submit"
                     /\ ret' = ret
    /\ UNCHANGED <<submitted, consumed, pending_exc>>
    /\ UNCHANGED menu

\* One turn of `for future in as_completed(futures)`: a finished future not yet
\* taken; future.result() re-raises what the unit raised, a truthy result is
\* appended to active_devices.
ns_collect(i) ==
    /\ op = "network_scan"
    /\ pc = "collect"
    /\ unit[i] = "done"
    /\ i \notin consumed
    /\ consumed' = consumed \cup {i}
    /\ IF outcome[i].kind = "raise"
       THEN /\ pending_exc' = outcome[i].exc
            /\ pc' = "exit"
            /\ UNCHANGED results
       ELSE /\ results' = IF outcome[i].value = PyNone THEN results
                          ELSE [results EXCEPT !.active_devices =
                                                  Append(@, outcome[i].value)]
            /\ UNCHANGED <<pc, pending_exc>>
    /\ UNCHANGED <<op, os_name, args, ret, hosts, submitted, unit, outcome, executor>>
    /\ UNCHANGED menu

\* An iterator that ends once it has yielded one future.
as_completed_first == consumed # {}

\* as_completed(futures) is exhausted when it has yielded every future.
as_completed_exhausted == consumed = Units

\* as_completed has yielded every future: the loop ends.
CollectDone ==
    /\ pc = "collect"
    /\ as_completed_exhausted
    /\ pc' = "exit"
    /\ UNCHANGED <<op, os_name, args, ret, results, hosts, submitted, unit, outcome,
                   consumed, executor, pending_exc>>
    /\ UNCHANGED menu

\* Lines 352-355: sort, total_active, return; a ValueError of the sort key goes
\* to the outer handler.
ns_report(res) ==
    IF \E k \in 1..Len(res.active_devices) :
           sort_key(res.active_devices[k]).kind = "raise"
    THEN ns_except("ValueError")
    ELSE LET devices == list_sort(res.active_devices)
         IN  Return([active_devices |-> devices,
                     total_scanned |-> res.total_scanned,
                     total_active |-> Len(devices)])

\* The `with ThreadPoolExecutor` block is left: shutdown(wait=True) returns once
\* no submitted unit is queued or running.  Then the report is built, or the
\* exception that left the loop reaches the outer handler.
ns_exit ==
    /\ op = "network_scan"
    /\ pc = "exit"
    /\ shutdown_returns
    /\ executor' = "shutdown"
    /\ ret' = IF pending_exc # "none" THEN ns_except(pending_exc)
              ELSE ns_report(results)
    /\ pc' = "done"
    /\ pending_exc' = "none"
    /\ UNCHANGED <<op, os_name, args, results, hosts, submitted, unit, outcome,
                   consumed>>
    /\ UNCHANGED menu

-----------------------------------------------------------------------------
(* scan_ports *)

\* The ports of the "Run All Analyses" sweep (network_utility.py).
DefaultPorts == <<80, 443, 8080, 21, 22, 25, 3306>>

\* The port lists of the model: the first ports of the default list, a list
\* that names a port twice and a list with a number that is no port (the menu
\* takes any comma-separated integers).
PortLists == {SubSeq(DefaultPorts, 1, n) : n \in 0..MaxPorts} \cup {<<80, 80>>, <<70000>>}

EmptyDict == [k \in {} |-> "Closed"]

\* results[port] = status
dict_set(d, k, v) == [x \in DOMAIN d \cup {k} |-> IF x = k THEN v ELSE d[x]]

\* Run All Analyses scans the default list; the model's menu scans its first
\* MenuPorts ports, also when the user is prompted for a list.
MenuPortList == SubSeq(DefaultPorts, 1, MenuPorts)

\* results = {}; the pool is created.
scan_ports ==
    /\ pc = "idle"
    /\ Chosen("scan_ports")
    /\ op' = "scan_ports"
    /\ \E ports \in Env(PortLists, {MenuPortList}) :
         /\ args' = [ports |-> ports, answers |-> [i \in 1..Len(ports) |-> NoValue]]
         /\ hosts' = [i \in 1..Len(ports) |-> [port |-> ports[i]]]
         /\ unit' = [i \in 1..Len(ports) |-> "new"]
         /\ outcome' = [i \in 1..Len(ports) |-> NoValue]
    /\ results' = EmptyDict
    /\ executor' = "open"
    /\ pc' = "submit"
    /\ UNCHANGED <<os_name, ret, submitted, consumed, pending_exc>>
    /\ UNCHANGED menu

\* One turn of the as_completed loop: port, status = future.result().
sp_collect(i) ==
    /\ op = "scan_ports"
    /\ pc = "collect"
    /\ unit[i] = "done"
    /\ i \notin consumed
    /\ consumed' = consumed \cup {i}
    /\ IF outcome[i].kind = "raise"
       THEN /\ pending_exc' = outcome[i].exc
            /\ pc' = "exit"
            /\ UNCHANGED results
       ELSE /\ results' = dict_set(results, outcome[i].value[1], outcome[i].value[2])
            /\ UNCHANGED <<pc, pending_exc>>
    /\ UNCHANGED <<op, os_name, args, ret, hosts, submitted, unit, outcome, executor>>
    /\ UNCHANGED menu

\* The with block is left; scan_ports has no handler, so an exception that left
\* the loop leaves the function.
sp_return(res, exc) == IF exc # "none" THEN Raise(exc) ELSE Return(res)

sp_exit ==
    /\ op = "scan_ports"
    /\ pc = "exit"
    /\ shutdown_returns
    /\ executor' = "shutdown"
    /\ ret' = sp_return(results, pending_exc)
    /\ pc' = "done"
    /\ pending_exc' = "none"
    /\ UNCHANGED <<op, os_name, args, results, hosts, submitted, unit, outcome,
                   consumed>>
    /\ UNCHANGED menu

-----------------------------------------------------------------------------
(* WebsiteAnalysis: the five methods that catch their own exceptions.  Each  *)
(* is one step: what the platform answers, and the value the method builds.  *)

\* socket.getaddrinfo(domain, None, family) gives addresses or raises; each
\* family has its own try block.
gdi(v4, v6) ==
    Return([IPv4 |-> IF v4 THEN "address" ELSE "Error: str(e)",
            IPv6 |-> IF v6 THEN "address" ELSE "Error: str(e)"])

get_domain_ip ==
    /\ pc = "idle"
    /\ Chosen("get_domain_ip")
    /\ \E v4 \in BOOLEAN :
       \E v6 \in Env(BOOLEAN, {v4}) :
         /\ args' = [v4 |-> v4, v6 |-> v6]
         /\ ret' = gdi(v4, v6)
    /\ op' = "get_domain_ip"
    /\ pc' = "done"
    /\ UNCHANGED <<os_name, results, hosts, submitted, unit, outcome, consumed,
                   executor, pending_exc>>
    /\ UNCHANGED menu

record_types == {"A", "AAAA", "MX", "TXT", "NS", "CNAME"}

\* dns.resolver.resolve answers for the types in `found` and raises for the
\* others; the loop catches each exception.
gdr(found) ==
    Return([t \in record_types |->
               IF t \in found THEN <<"str(answer)">> ELSE <<"No records found">>])

get_dns_records ==
    /\ pc = "idle"
    /\ Chosen("get_dns_records")
    /\ \E found \in Env({{}, {"A"}, record_types}, {{}, record_types}) :
         /\ args' = [found |-> found]
         /\ ret' = gdr(found)
    /\ op' = "get_dns_records"
    /\ pc' = "done"
    /\ UNCHANGED <<os_name, results, hosts, submitted, unit, outcome, consumed,
                   executor, pending_exc>>
    /\ UNCHANGED menu

\* The ping command raised, or printed a text: `loss` is what the loss regex
\* captured (Windows "Lost = n", POSIX "n% packet loss"), `groups` what the
\* summary regex captured; <<>> stands for no match.
PingTestOutputs ==
    {[kind |-> "raise", loss |-> <<>>, groups |-> <<>>]}
    \cup {[kind |-> "text", loss |-> l, groups |-> g] :
             l \in {<<>>, <<1>>}, g \in {<<>>, <<1, 1, 1>>}}

MenuPingTestOutputs ==
    {o \in PingTestOutputs : o.kind = "text" => (o.loss # <<>> /\ o.groups # <<>>)}

\* Windows sends 4 packets: 1 lost packet = 25% loss.
pt(os, out) ==
    IF out.kind = "raise"
    THEN Return([min |-> Frac(0, 1), avg |-> Frac(0, 1), max |-> Frac(0, 1),
                 packet_loss |-> 100, error |-> "str(e)"])
    ELSE LET loss == IF out.loss = <<>> THEN 0
                     ELSE IF os = "Windows" THEN out.loss[1] * 25 ELSE out.loss[1]
             times == IF out.groups = <<>>
                      THEN [min |-> Frac(0, 1), avg |-> Frac(0, 1), max |-> Frac(0, 1)]
                      ELSE IF os = "Windows" THEN lc_fields_windows(out.groups)
                      ELSE lc_fields_posix(out.groups)
         IN  Return([min |-> times.min, avg |-> times.avg, max |-> times.max,
                     packet_loss |-> loss])

ping_test ==
    /\ pc = "idle"
    /\ Chosen("ping_test")
    /\ \E os \in Env(os_names, {os_name}), out \in Env(PingTestOutputs, MenuPingTestOutputs) :
         /\ os_name' = os
         /\ args' = [out |-> out]
         /\ ret' = pt(os, out)
    /\ op' = "ping_test"
    /\ pc' = "done"
    /\ UNCHANGED <<results, hosts, submitted, unit, outcome, consumed,
                   executor, pending_exc>>
    /\ UNCHANGED menu

\* whois.whois(domain) raises, or gives a record whose name_servers is a list
\* or is not.
gwi(answer) ==
    IF answer = "raise" THEN Return([Error |-> "str(e)"])
    ELSE Return([Registrar |-> "registrar", WhoisServer |-> "whois_server",
                 CreationDate |-> "date", ExpirationDate |-> "date",
                 UpdatedDate |-> "date",
                 NameServers |-> IF answer = "list" THEN "joined" ELSE "Unknown"])

get_whois_info ==
    /\ pc = "idle"
    /\ Chosen("get_whois_info")
    /\ \E answer \in Env({"raise", "list", "none"}, {"raise", "list"}) :
         /\ args' = [answer |-> answer]
         /\ ret' = gwi(answer)
    /\ op' = "get_whois_info"
    /\ pc' = "done"
    /\ UNCHANGED <<os_name, results, hosts, submitted, unit, outcome, consumed,
                   executor, pending_exc>>
    /\ UNCHANGED menu

\* The connection and the handshake raise ssl.SSLError, socket.error (an
\* unresolvable domain included) or another exception, each returned as a
\* string; or the certificate is read, and has expired or has not.
gsi(answer) ==
    IF answer = "SSLError" THEN Return([text |-> "SSL Error: str(e)"])
    ELSE IF answer = "socket.error" THEN Return([text |-> "Socket Error: str(e)"])
    ELSE IF answer = "Exception" THEN Return([text |-> "Error: str(e)"])
    ELSE Return([Subject |-> "subject", Issuer |-> "issuer", Version |-> "version",
                 SerialNumber |-> "serial", NotBefore |-> "date", NotAfter |-> "date",
                 Status |-> IF answer = "expired" THEN "Expired" ELSE "Valid"])

get_ssl_info ==
    /\ pc = "idle"
    /\ Chosen("get_ssl_info")
    /\ \E answer \in Env({"SSLError", "socket.error", "Exception", "expired", "valid"},
                          {"socket.error", "valid"}) :
         /\ args' = [answer |-> answer]
         /\ ret' = gsi(answer)
    /\ op' = "get_ssl_info"
    /\ pc' = "done"
    /\ UNCHANGED <<os_name, results, hosts, submitted, unit, outcome, consumed,
                   executor, pending_exc>>
    /\ UNCHANGED menu

-----------------------------------------------------------------------------
(* Run All Diagnostics *)

\* choice == "6": results of earlier choices stay in the dict; the model
\* starts from the empty dict of `results = {}`.
run_all ==
    /\ pc = "idle"
    /\ menu.choice = "none"
    /\ \E os \in os_names : os_name' = os
    /\ menu' = [menu EXCEPT !.choice = "6", !.stage = 1]
    /\ UNCHANGED <<op, pc, args, ret, results, hosts, submitted, unit, outcome,
                   consumed, executor, pending_exc>>

\* A sequence of stages that ends at the first result holding an error.
ra_next_stage_until_error(stage, value) ==
    IF "error" \in DOMAIN value THEN Len(RunAllStages) + 1 ELSE stage + 1

\* The statement after results[key] = diagnostic.<call>(...) is the next
\* stage's, whatever the call returned.
ra_next_stage(stage, value) == stage + 1

\* results[key] = <what the call returned>: the call's locals are gone, the
\* menu goes on to the next statement, under Run All the next stage's, after
\* a single analysis the display and the next turn of the menu loop.  An
\* exception of the call would leave the menu function.
ra_store ==
    /\ menu.choice \in {RunAllChoice} \cup {Digits[k] : k \in DOMAIN Stages}
    /\ pc = "done"
    /\ menu' = IF ret.kind = "raise" THEN [menu EXCEPT !.choice = "aborted"]
               ELSE IF menu.choice = RunAllChoice
               THEN [menu EXCEPT
                        !.results = dict_set(@, Stages[menu.stage].key, ret.value),
                        !.stage = ra_next_stage(@, ret.value)]
               ELSE [menu EXCEPT
                        !.results = dict_set(@, Stages[menu.stage].key, ret.value),
                        !.stage = 0,
                        !.choice = "prompt"]
    /\ op' = "none"
    /\ pc' = "idle"
    /\ args' = [none |-> TRUE]
    /\ ret' = NoValue
    /\ results' = [none |-> TRUE]
    /\ hosts' = <<>>
    /\ submitted' = 0
    /\ unit' = <<>>
    /\ outcome' = <<>>
    /\ consumed' = {}
    /\ executor' = "none"
    /\ pending_exc' = "none"
    /\ UNCHANGED os_name

\* What the menu prints of a stage's result: display_multi_result prints every
\* item of the three dicts; of each hop its number, host, address and time; of
\* the scan report total_scanned, then the error or the devices.
ra_display(key, value) ==
    IF key = "Route Tracing"
    THEN [k \in 1..Len(value) |->
             [hop |-> value[k].hop, host |-> value[k].host, ip |-> value[k].ip,
              time |-> value[k].time]]
    ELSE IF key = "Network Scan"
    THEN IF "error" \in DOMAIN value
         THEN [total_scanned |-> value.total_scanned, error |-> value.error]
         ELSE [total_scanned |-> value.total_scanned,
               active |-> Len(value.active_devices),
               devices |-> [k \in 1..Len(value.active_devices) |->
                               [ip |-> value.active_devices[k].ip,
                                hostname |-> value.active_devices[k].hostname]]]
    ELSE value

\* "Display combined results": the results of the stages are read from the
\* dict, a missing key is a KeyError that leaves the menu function; in a
\* session the menu loop goes on.
ra_report ==
    /\ menu.choice = RunAllChoice
    /\ pc = "idle"
    /\ menu.stage = Len(Stages) + 1
    /\ menu' = IF \E k \in DOMAIN Stages : Stages[k].key \notin DOMAIN menu.results
               THEN [menu EXCEPT !.choice = "aborted"]
               ELSE [menu EXCEPT
                        !.choice = IF InSession THEN "prompt" ELSE "shown",
                        !.shown = [k \in DOMAIN Stages |->
                                      ra_display(Stages[k].key,
                                                 menu.results[Stages[k].key])]]
    /\ UNCHANGED <<op, pc, os_name, args, ret, results, hosts, submitted, unit,
                   outcome, consumed, executor, pending_exc>>

\* display_menu returns the user's choice: an analysis, Run All or Export
\* Results.  (Back and Exit leave the session.)
menu_choice ==
    /\ InSession
    /\ menu.choice = "prompt"
    /\ pc = "idle"
    /\ \E k \in 1..(Len(Stages) + 2) :
         menu' = [menu EXCEPT !.choice = Digits[k],
                              !.stage = IF k = Len(Stages) + 1 THEN 1
                                        ELSE IF k \in DOMAIN Stages THEN k ELSE 0,
                              !.shown = <<>>,
                              !.message = "none"]
    /\ UNCHANGED <<op, pc, os_name, args, ret, results, hosts, submitted, unit,
                   outcome, consumed, executor, pending_exc>>

\* An export that writes its file whatever the dict holds.
me_guard_none(results_dict) == FALSE

\* if not results: display_error(...); continue
me_guard(results_dict) == DOMAIN results_dict = {}

\* Export Results: the error message and the next turn of the loop when
\* nothing is stored, else export_results writes one new file.
menu_export ==
    /\ InSession
    /\ menu.choice = ExportChoice
    /\ pc = "idle"
    /\ IF me_guard(menu.results)
       THEN menu' = [menu EXCEPT !.choice = "prompt",
                                 !.message = "No results to export"]
       ELSE /\ menu.files < MaxExports
            /\ menu' = [menu EXCEPT !.choice = "prompt",
                                    !.files = @ + 1,
                                    !.message = "Results exported"]
    /\ UNCHANGED <<op, pc, os_name, args, ret, results, hosts, submitted, unit,
                   outcome, consumed, executor, pending_exc>>

-----------------------------------------------------------------------------

\* No menu is open: the methods are called on their own, or Run All
\* Diagnostics is entered directly.
NoMenu ==
    [name |-> "none", choice |-> "none", stage |-> 0, results |-> EmptyDict,
     shown |-> <<>>, files |-> 0, message |-> "none"]

Init ==
    /\ op = "none"
    /\ pc = "idle"
    /\ os_name = "Linux"
    /\ args = [none |-> TRUE]
    /\ ret = NoValue
    /\ results = [none |-> TRUE]
    /\ hosts = <<>>
    /\ submitted = 0
    /\ unit = <<>>
    /\ outcome = <<>>
    /\ consumed = {}
    /\ executor = "none"
    /\ pending_exc = "none"
    /\ menu = NoMenu

\* The steps of the two sweeps.
Progress ==
    \/ network_scan
    \/ scan_ports
    \/ Submit
    \/ SubmitDone
    \/ \E i \in Units : Start(i)
    \/ \E i \in Units : Finish(i)
    \/ \E i \in Units : ns_collect(i)
    \/ \E i \in Units : sp_collect(i)
    \/ CollectDone
    \/ ns_exit
    \/ sp_exit

NextSweep ==
    \/ Progress
    \/ \E i \in Units : Hang(i)

Next ==
    \/ speed_test
    \/ latency_check
    \/ packet_loss_analysis
    \/ route_tracing
    \/ rt_line
    \/ rt_return
    \/ NextSweep
    \/ get_domain_ip
    \/ get_dns_records
    \/ ping_test
    \/ get_whois_info
    \/ get_ssl_info
    \/ run_all
    \/ ra_store
    \/ ra_report

Spec == Init /\ [][Next]_vars

\* The sweeps alone, with the scheduling Python gives them: a thread that can
\* take a step does take it; only a probe's command may fail to return.
FairSpec == Init /\ [][NextSweep]_vars /\ WF_vars(Progress)

-----------------------------------------------------------------------------
(* A session of the diagnostics menu or of the website menu: results = {}    *)
(* and the menu loop, whose analyses are the steps above.                    *)

MenuInit ==
    /\ op = "none"
    /\ pc = "idle"
    /\ os_name \in os_names
    /\ args = [none |-> TRUE]
    /\ ret = NoValue
    /\ results = [none |-> TRUE]
    /\ hosts = <<>>
    /\ submitted = 0
    /\ unit = <<>>
    /\ outcome = <<>>
    /\ consumed = {}
    /\ executor = "none"
    /\ pending_exc = "none"
    /\ \E name \in {"diagnostics", "website"} :
         menu = [NoMenu EXCEPT !.name = name, !.choice = "prompt"]

MenuNext ==
    \/ menu_choice
    \/ speed_test
    \/ latency_check
    \/ packet_loss_analysis
    \/ route_tracing
    \/ rt_line
    \/ rt_return
    \/ get_domain_ip
    \/ get_dns_records
    \/ ping_test
    \/ get_whois_info
    \/ get_ssl_info
    \/ Progress
    \/ ra_store
    \/ ra_report
    \/ menu_export

MenuSpec == MenuInit /\ [][MenuNext]_vars

-----------------------------------------------------------------------------
(* The parsing steps alone: one raw output of a platform command, parsed    *)
(* twice under one OS family.  `results` holds what each parse gave.        *)

\* The raw outputs: a ping summary for latency_check, ping statistics for
\* packet_loss_analysis, one line of tracert / traceroute for route_tracing.
RawOutputs ==
    {[fn |-> "latency_check", out |-> o] : o \in {x \in LatencyOutputs : x.kind # "raise"}}
    \cup {[fn |-> "packet_loss_analysis", out |-> o] :
              o \in {x \in PingOutputs : x.kind # "raise" /\ PingStats(x)}}
    \cup {[fn |-> "route_tracing", out |-> o] : o \in {x \in RouteLines : ~x.resolves}}

ParseInit ==
    /\ op = "parse"
    /\ pc = "idle"
    /\ os_name \in os_names
    /\ args \in RawOutputs
    /\ ret = NoValue
    /\ results = <<>>
    /\ hosts = <<>>
    /\ submitted = 0
    /\ unit = <<>>
    /\ outcome = <<>>
    /\ consumed = {}
    /\ executor = "none"
    /\ pending_exc = "none"
    /\ menu = NoMenu

\* latency_check, lines 129-145, on the same output once more.
lc_parse ==
    /\ op = "parse" /\ args.fn = "latency_check"
    /\ Len(results) < 2
    /\ results' = Append(results, lc(os_name, args.out))
    /\ UNCHANGED <<op, pc, os_name, args, ret, hosts, submitted, unit, outcome,
                   consumed, executor, pending_exc, menu>>

\* packet_loss_analysis, lines 170-188, on the same output once more.
pla_parse ==
    /\ op = "parse" /\ args.fn = "packet_loss_analysis"
    /\ Len(results) < 2
    /\ results' = Append(results, pla(os_name, RunAllPackets, args.out))
    /\ UNCHANGED <<op, pc, os_name, args, ret, hosts, submitted, unit, outcome,
                   consumed, executor, pending_exc, menu>>

\* route_tracing, one turn of the loop of lines 213-275, on the same line once
\* more: socket.gethostbyaddr is asked at each parse, and answers or raises.
rt_parse ==
    /\ op = "parse" /\ args.fn = "route_tracing"
    /\ Len(results) < 2
    /\ \E answers \in BOOLEAN :
         results' = Append(results,
                           rt_parse_line(os_name, 1, [args.out EXCEPT !.resolves = answers]))
    /\ UNCHANGED <<op, pc, os_name, args, ret, hosts, submitted, unit, outcome,
                   consumed, executor, pending_exc, menu>>

ParseNext == lc_parse \/ pla_parse \/ rt_parse

ParseSpec == ParseInit /\ [][ParseNext]_vars

-----------------------------------------------------------------------------
(* Properties. *)

DiagnosticsOps ==
    {"speed_test", "latency_check", "packet_loss_analysis", "route_tracing",
     "network_scan"}

SweepOps == {"network_scan", "scan_ports"}

MaxUnits == IF MaxScanHosts > MaxPorts THEN MaxScanHosts ELSE MaxPorts

\* The unit of hosts[i] ended in an error: it raised, or (network_scan) its
\* ping did not answer.
UnitFailed(i) ==
    /\ unit[i] = "done"
    /\ \/ outcome[i].kind = "raise"
       \/ op = "network_scan" /\ outcome[i] = Return(PyNone)

\* The unit of hosts[i] ended with a result to report.
UnitSucceeded(i) == unit[i] = "done" /\ ~UnitFailed(i)

\* The returned value holds the outcome of unit i.
InReturned(i) ==
    /\ ret.kind = "value"
    /\ IF op = "network_scan"
       THEN \E k \in 1..Len(ret.value.active_devices) :
                ret.value.active_devices[k] = outcome[i].value
       ELSE /\ outcome[i].value[1] \in DOMAIN ret.value
            /\ \E j \in Units : /\ outcome[j].kind = "value"
                                /\ outcome[j].value[1] = outcome[i].value[1]
                                /\ ret.value[outcome[i].value[1]] = outcome[j].value[2]

\* The subnet string fails CIDR validation.
InvalidCidr(subnet) ==
    \/ subnet.form # "cidr"
    \/ subnet.prefixlen < 0
    \/ subnet.version = 4 /\ subnet.prefixlen > 32
    \/ subnet.version = 6 /\ subnet.prefixlen > 128

\* C1: every packet_loss_analysis result has sent = received + lost and, when
\* sent > 0, loss_percentage = 100 * lost / sent.
C1_LossStatsConsistent ==
    (op = "packet_loss_analysis" /\ pc = "done") =>
        /\ ret.value.sent = ret.value.received + ret.value.lost
        /\ ret.value.sent > 0 =>
               FracEq(ret.value.loss_percentage,
                      Frac(100 * ret.value.lost, ret.value.sent))

\* C2: when a probe unit of scan_ports or network_scan ends in an error, the
\* call still returns a value, and that value holds the outcome of every unit
\* that did not fail.
C2_UnitErrorDoesNotAbortBatch ==
    (op \in SweepOps /\ pc = "done" /\ \E i \in Units : UnitFailed(i)) =>
        /\ ret.kind = "value"
        /\ \A j \in Units : UnitSucceeded(j) => InReturned(j)

\* C3: a call of network_scan always eventually returns, also when a probe
\* unit never completes.
C3_NetworkScanReturns == (op = "network_scan") ~> (pc = "done")

\* C4: a probe unit that never returns gets a Timeout outcome recorded by the
\* collection loop, and the finished units are collected without waiting for it.
C4_HungUnitTimesOut ==
    /\ \A i \in 1..MaxUnits :
           (i \in Units /\ unit[i] = "hung")
               ~> (i \in consumed /\ outcome[i].kind = "timeout")
    /\ \A i, j \in 1..MaxUnits :
           (i \in Units /\ j \in Units /\ unit[i] = "hung" /\ unit[j] = "done"
               /\ pc = "collect")
               ~> (j \in consumed)

\* C5: at every instant at most ScanMaxWorkers probe units of a network_scan
\* call, and at most PortsMaxWorkers probe units of a scan_ports call, are
\* executing.
C5_PoolCeiling ==
    /\ op = "network_scan" => Cardinality(Executing) <= ScanMaxWorkers
    /\ op = "scan_ports" => Cardinality(Executing) <= PortsMaxWorkers

\* C5 witness: a network_scan batch larger than its pool, the pool full and a
\* unit waiting in the queue.
C5_Witness ==
    /\ op = "network_scan"
    /\ Cardinality(Executing) = ScanMaxWorkers
    /\ \E i \in Units : unit[i] = "queued"

\* C6: for a valid subnet with H hosts, network_scan submits min(MaxScanHosts, H)
\* units, one per address, the loop takes each outcome exactly once, and the
\* returned total_scanned is that number.
C6_OneOutcomePerHost ==
    (op = "network_scan" /\ pc = "done" /\ ~InvalidCidr(args.subnet)) =>
        LET all == network_hosts(ip_network(args.subnet).value)
            n == Min(MaxScanHosts, Len(all))
        IN  /\ Len(hosts) = n
            /\ submitted = n
            /\ \A i \in 1..n : hosts[i] = all[i]
            /\ \A i, j \in 1..n : hosts[i] = hosts[j] => i = j
            /\ consumed = 1..n
            /\ \A i \in 1..n : unit[i] = "done"
            /\ ret.kind = "value"
            /\ ret.value.total_scanned = n

\* C7: speed_test, latency_check, packet_loss_analysis, route_tracing and
\* network_scan hand a result structure back on every path; no exception
\* reaches the caller.
C7_NoExceptionEscapes ==
    (op \in DiagnosticsOps /\ pc = "done") => (ret.kind = "value" /\ pending_exc = "none")

\* C7 witness: a network_scan that returned after an exception inside it (the
\* sort key raised once units had been dispatched).
C7_Witness ==
    /\ op = "network_scan"
    /\ pc = "done"
    /\ submitted > 0
    /\ ret.kind = "value"
    /\ "error" \in DOMAIN ret.value

\* C8: every packet_loss_analysis result with sent = 0 has loss_percentage = 100.
C8_ZeroSentIsTotalLoss ==
    (op = "packet_loss_analysis" /\ pc = "done" /\ ret.value.sent = 0) =>
        FracEq(ret.value.loss_percentage, Frac(100, 1))

\* C9: once a probe unit has been dispatched, the report network_scan returns
\* has no error field and holds the devices that were collected.
C9_ErrorOnlyBeforeDispatch ==
    (op = "network_scan" /\ pc = "done" /\ submitted >= 1) =>
        /\ ret.kind = "value"
        /\ "error" \notin DOMAIN ret.value
        /\ \A i \in consumed : UnitSucceeded(i) => InReturned(i)

\* C10: for a subnet string that fails CIDR validation, network_scan returns a
\* report with total_scanned = 0, active_devices = [] and a non-empty error,
\* with no pool created and no unit submitted.
C10_InvalidSubnetFailsFast ==
    (op = "network_scan" /\ InvalidCidr(args.subnet)) =>
        /\ pc = "done"
        /\ ret.kind = "value"
        /\ ret.value.total_scanned = 0
        /\ ret.value.active_devices = <<>>
        /\ "error" \in DOMAIN ret.value
        /\ ret.value.error # ""
        /\ executor = "none"
        /\ submitted = 0
        /\ unit = <<>>

\* C10 witness: network_scan has returned for a subnet that is no CIDR string.
C10_Witness ==
    /\ op = "network_scan"
    /\ pc = "done"
    /\ args.subnet.form = "garbage"
    /\ "error" \in DOMAIN ret.value

\* C11: every report network_scan returns (successful, invalid subnet, failed)
\* has a total_active field, equal to the length of active_devices.
C11_TotalActiveIsLength ==
    (op = "network_scan" /\ pc = "done" /\ ret.kind = "value") =>
        /\ "total_active" \in DOMAIN ret.value
        /\ ret.value.total_active = Len(ret.value.active_devices)

\* The devices the collection loop appended: the truthy results it has taken.
Collected ==
    {outcome[i].value : i \in {j \in consumed : /\ outcome[j].kind = "value"
                                                 /\ outcome[j].value # PyNone}}

\* C12: in every report network_scan returns, active_devices is ascending by
\* the numeric components of the dotted address and is a permutation of the
\* devices collected, whatever order the probes completed in.
C12_SortedPermutation ==
    (op = "network_scan" /\ pc = "done" /\ ret.kind = "value") =>
        LET devices == ret.value.active_devices
        IN  /\ \A k \in 1..(Len(devices) - 1) :
                   ~list_less(devices[k + 1].ip.parts, devices[k].ip.parts)
            /\ Len(devices) = Cardinality(Collected)
            /\ {devices[k] : k \in 1..Len(devices)} = Collected

StoredBefore(n) == {RunAllStages[k].key : k \in 1..(n - 1)}

\* C14: in Run All Diagnostics the five stages run in the order speed test,
\* latency check, packet-loss analysis, route trace, network scan; whatever a
\* stage returned, a failure included, its result is stored under its own key,
\* the results stored before are kept, the next stage follows, and the display
\* shows the five results.
C14_RunAllStagesInOrder ==
    /\ [](menu.choice # "aborted")
    /\ [](menu.choice \in {"6", "shown"} =>
            /\ menu.stage \in 1..(Len(RunAllStages) + 1)
            /\ DOMAIN menu.results = StoredBefore(menu.stage)
            /\ op # "none" => op = RunAllStages[menu.stage].call
            /\ menu.choice = "shown" =>
                   /\ menu.stage = Len(RunAllStages) + 1
                   /\ \A k \in DOMAIN RunAllStages :
                          menu.shown[k] = ra_display(RunAllStages[k].key,
                                                     menu.results[RunAllStages[k].key]))
    /\ [][(menu.choice = "6" /\ pc = "done") =>
            /\ menu'.choice = "6"
            /\ menu'.stage = menu.stage + 1
            /\ menu'.results[RunAllStages[menu.stage].key] = ret.value
            /\ \A key \in DOMAIN menu.results : menu'.results[key] = menu.results[key]]_vars

\* C14 witness: the five results are displayed after the speed test and the
\* latency check had both returned an error.
C14_Witness ==
    /\ menu.choice = "shown"
    /\ "error" \in DOMAIN menu.results["Speed Test"]
    /\ "error" \in DOMAIN menu.results["Latency Check"]
    /\ Len(menu.shown) = Len(RunAllStages)
    /\ "total_scanned" \in DOMAIN menu.shown[Len(RunAllStages)]

\* The summary line of the ping output reports minimum <= average <= maximum:
\* Windows prints them as Minimum, Maximum, Average, POSIX as min/avg/max.
SummaryOrdered(os, g) ==
    IF os = "Windows" THEN g[1] <= g[3] /\ g[3] <= g[2]
    ELSE g[1] <= g[2] /\ g[2] <= g[3]

\* C15: every latency_check result whose min, avg and max are not all zero has
\* min <= avg <= max, on both OS families, provided the ping summary reports
\* minimum <= average <= maximum.
C15_LatencyOrdered ==
    (/\ op = "latency_check" /\ pc = "done"
     /\ args.out.kind = "times" /\ SummaryOrdered(os_name, args.out.groups)
     /\ ~(/\ FracEq(ret.value.min, Frac(0, 1)) /\ FracEq(ret.value.avg, Frac(0, 1))
          /\ FracEq(ret.value.max, Frac(0, 1)))) =>
        /\ FracLe(ret.value.min, ret.value.avg)
        /\ FracLe(ret.value.avg, ret.value.max)

\* C15 witness: a Windows summary "Minimum = 1ms, Maximum = 2ms, Average = 1ms"
\* was parsed.
C15_Witness ==
    /\ op = "latency_check" /\ pc = "done" /\ os_name = "Windows"
    /\ args.out.kind = "times" /\ args.out.groups = <<1, 2, 1>>
    /\ FracEq(ret.value.max, Frac(2, 1))
    /\ FracEq(ret.value.avg, Frac(1, 1))

\* C16: parsing the same raw ping or traceroute output twice under the same OS
\* family gives identical structured results.
C16_ParsingIdempotent ==
    op = "parse" => \A i, j \in 1..Len(results) : results[i] = results[j]

\* C17: every packet_loss_analysis result has sent, received and lost
\* non-negative and loss_percentage within [0, 100].
C17_LossStatsInRange ==
    (op = "packet_loss_analysis" /\ pc = "done" /\ ret.kind = "value") =>
        /\ ret.value.sent >= 0
        /\ ret.value.received >= 0
        /\ ret.value.lost >= 0
        /\ FracLe(Frac(0, 1), ret.value.loss_percentage)
        /\ FracLe(ret.value.loss_percentage, Frac(100, 1))

\* The three timing fields of a hop line are all "*".
AllUnresolved(line) ==
    line.kind = "hop" /\ \A k \in 1..3 : line.times[k].text = "*"

\* C18: on either OS family, parsing a hop line whose three timing fields are
\* all "*" emits a hop entry with time 0.0, so no hop number is left out.
C18_UnresolvedHopEmitted ==
    (op = "parse" /\ args.fn = "route_tracing" /\ AllUnresolved(args.out)) =>
        \A i \in 1..Len(results) :
            /\ results[i].kind = "value"
            /\ FracEq(results[i].value.time, Frac(0, 1))

\* C19: network_scan leaves the collection loop, sorts active_devices and
\* computes total_active only when every submitted probe unit has completed
\* and the loop has taken its outcome.
C19_AggregateAfterAllCollected ==
    (op = "network_scan" /\ pc \in {"exit", "done"} /\ executor # "none") =>
        /\ submitted = Len(hosts)
        /\ \A i \in Units : unit[i] = "done" /\ outcome[i] # NoValue
        /\ consumed = Units

\* C19 witness: a report with an active device, built from a batch larger
\* than the pool.
C19_Witness ==
    /\ op = "network_scan" /\ pc = "done"
    /\ Cardinality(Units) > ScanMaxWorkers
    /\ ret.kind = "value"
    /\ "total_active" \in DOMAIN ret.value
    /\ ret.value.total_active >= 1

\* C20: when network_scan or scan_ports has returned, normally or with the
\* exception that left the collection loop, no probe unit of the call is
\* queued or executing and the pool of the call is shut down; a pool exists
\* only inside the sweep call that created it.
C20_NothingOutlivesTheCall ==
    /\ (op \in SweepOps /\ pc = "done") =>
           /\ Executing = {}
           /\ Unfinished = {}
           /\ executor # "open"
           /\ submitted > 0 => executor = "shutdown"
    /\ executor = "open" => (op \in SweepOps /\ pc \in {"submit", "collect", "exit"})
    /\ pc = "idle" => (executor = "none" /\ Units = {})

\* C20 witness: scan_ports has returned with the exception of one unit while
\* the batch held other units.
C20_Witness ==
    /\ op = "scan_ports" /\ pc = "done"
    /\ ret.kind = "raise"
    /\ Cardinality(Units) >= 2
    /\ consumed # Units
    /\ executor = "shutdown"

\* What the collection loop builds when it takes the units in the order of
\* submission: the devices appended, the port map assigned.
RECURSIVE InOrderDevices(_)
InOrderDevices(k) ==
    IF k = 0 THEN <<>>
    ELSE IF outcome[k].value = PyNone THEN InOrderDevices(k - 1)
    ELSE Append(InOrderDevices(k - 1), outcome[k].value)

RECURSIVE InOrderPorts(_)
InOrderPorts(k) ==
    IF k = 0 THEN EmptyDict
    ELSE dict_set(InOrderPorts(k - 1), outcome[k].value[1], outcome[k].value[2])

\* What the sweep hands back when its units complete in the order of
\* submission, for the outcomes the units had in this run.
InOrderReturn ==
    IF op = "network_scan"
    THEN ns_report([active_devices |-> InOrderDevices(Len(hosts)),
                    total_scanned |-> Len(hosts)])
    ELSE IF \E i \in Units : outcome[i].kind = "raise"
         THEN Raise(outcome[CHOOSE i \in Units : outcome[i].kind = "raise"].exc)
         ELSE Return(InOrderPorts(Len(hosts)))

\* C21: for a fixed assignment of outcomes to the probe units, what
\* network_scan and scan_ports return is the same for every order in which the
\* units complete: it is what completion in the order of submission gives.
C21_OrderIndependent ==
    (op \in SweepOps /\ pc = "done" /\ executor = "shutdown") => ret = InOrderReturn

\* C22: in a network_scan report without error, an address is in
\* active_devices if and only if it is a submitted host address whose ping
\* exited with status 0; it is there once, with status "Ativo", also when its
\* name lookup failed.
C22_ActiveIffPingAnswered ==
    (/\ op = "network_scan" /\ pc = "done" /\ ret.kind = "value"
     /\ "error" \notin DOMAIN ret.value) =>
        LET devices == ret.value.active_devices
        IN  /\ \A i \in Units :
                   (args.answers[i].response = 0) <=>
                       (\E k \in 1..Len(devices) : devices[k].ip = ip_str(hosts[i]))
            /\ \A k \in 1..Len(devices) :
                   /\ \E i \in Units : devices[k].ip = ip_str(hosts[i])
                   /\ devices[k].status = "Ativo"
            /\ \A k, l \in 1..Len(devices) : devices[k].ip = devices[l].ip => k = l

\* C22 witness: a report without error that lists a host whose ping answered
\* and whose name lookup gave no name, next to a host whose ping did not answer.
C22_Witness ==
    /\ op = "network_scan" /\ pc = "done" /\ ret.kind = "value"
    /\ "error" \notin DOMAIN ret.value
    /\ \E i, j \in Units :
          /\ args.answers[i].response = 0
          /\ args.answers[j].response = 1
          /\ \E k \in 1..Len(ret.value.active_devices) :
                /\ ret.value.active_devices[k].ip = ip_str(hosts[i])
                /\ ret.value.active_devices[k].hostname = "N/A"

\* C23: scan_ports returns a map whose keys are exactly the requested ports, a
\* port mapped to "Open" if and only if its connect attempt returned success
\* and to "Closed" on refusal and on timeout alike; the call ends in a harder
\* error only when the address cannot be resolved.
C23_PortMapClassifies ==
    (op = "scan_ports" /\ pc = "done") =>
        /\ ret.kind = "raise" =>
               \E i \in Units : args.answers[i] # NoValue /\ args.answers[i].raised
        /\ ret.kind = "value" =>
               /\ DOMAIN ret.value = {hosts[i].port : i \in Units}
               /\ \A i \in Units :
                      ret.value[hosts[i].port] =
                          IF args.answers[i].errno = 0 THEN "Open" ELSE "Closed"

\* C24: when the ping command succeeds but its output does not match the
\* summary grammar, latency_check returns min = avg = max = 0.0 with no error
\* field and without raising; when the traceroute command succeeds and no line
\* of its output matches the hop grammar, route_tracing returns an empty list
\* without raising.
C24_NoMatchGivesSentinel ==
    /\ (/\ op = "latency_check" /\ pc = "done"
        /\ args.out.kind \in {"undecodable", "nomatch"}) =>
           ret = Return([min |-> Frac(0, 1), avg |-> Frac(0, 1), max |-> Frac(0, 1)])
    /\ (/\ op = "route_tracing" /\ pc = "done"
        /\ ~args.raised /\ args.matched = 0) =>
           ret = Return(<<>>)

\* The same with the outputs that .decode() rejects left aside.
C24_DecodableNoMatch ==
    /\ (op = "latency_check" /\ pc = "done" /\ args.out.kind = "nomatch") =>
           ret = Return([min |-> Frac(0, 1), avg |-> Frac(0, 1), max |-> Frac(0, 1)])
    /\ (/\ op = "route_tracing" /\ pc = "done"
        /\ ~args.raised /\ args.decoded /\ args.matched = 0) =>
           ret = Return(<<>>)

\* The timing samples of a hop line that carry a value, their sum and the hop
\* the loop appended for the line it read last.
ValuedSamples(line) == {k \in 1..3 : line.times[k].text = "num"}
SampleSum(line) ==
    LET v(k) == IF k \in ValuedSamples(line) THEN line.times[k].value ELSE 0
    IN  v(1) + v(2) + v(3)
HopEmitted ==
    /\ op = "route_tracing" /\ pc = "rt_lines"
    /\ args.line # NoValue
    /\ rt_parse_line(os_name, Len(results.hops), args.line).kind = "value"

\* C25: the time of every emitted hop is the arithmetic mean of exactly the
\* timing samples of its line that carry a value; the samples marked "*" enter
\* neither the sum nor the count.
C25_HopTimeIsMeanOfValued ==
    /\ (HopEmitted /\ ValuedSamples(args.line) # {}) =>
           FracEq(results.hops[Len(results.hops)].time,
                  Frac(SampleSum(args.line), Cardinality(ValuedSamples(args.line))))
    /\ (/\ op = "route_tracing" /\ pc = "done"
        /\ \A k \in 1..Len(ret.value) : "error" \notin DOMAIN ret.value[k]) =>
           ret.value = results.hops

C25_Witness ==
    /\ HopEmitted
    /\ Cardinality(ValuedSamples(args.line)) = 2
    /\ SampleSum(args.line) = 6
    /\ FracEq(results.hops[Len(results.hops)].time, Frac(3, 1))

\* C26: in the website menu's Run All Analyses the six stages run in the order
\* domain IP lookup, DNS records, ping test, port scan, WHOIS, SSL certificate,
\* and whatever a stage came back with, a failure included, its result is
\* stored under its own key and the next stage follows.
C26_WebsiteRunAllStoresAll ==
    /\ []((menu.name = "website" /\ menu.choice = "7") =>
            /\ menu.stage \in 1..(Len(WebsiteStages) + 1)
            /\ op # "none" => op = WebsiteStages[menu.stage].call
            /\ \A k \in 1..(menu.stage - 1) : WebsiteStages[k].key \in DOMAIN menu.results)
    /\ [][(menu.name = "website" /\ menu.choice = "7" /\ pc = "done") =>
            /\ menu'.choice = "7"
            /\ menu'.stage = menu.stage + 1
            /\ menu'.results[WebsiteStages[menu.stage].key] = ret.value
            /\ \A key \in DOMAIN menu.results \ {WebsiteStages[menu.stage].key} :
                   menu'.results[key] = menu.results[key]]_vars

\* The stage of a speed_test run that fails first: 1 (ping), 2 (download),
\* 3 (upload), or 4 when none fails.
FailedStage(run) ==
    IF ~run.ping.ok THEN 1
    ELSE IF ~run.download.ok THEN 2
    ELSE IF ~run.upload.ok THEN 3
    ELSE 4

\* C27: speed_test runs ping, download, upload in this order; when stage k
\* fails the result has an error field, the fields of the stages before k keep
\* what was measured and the fields of stage k and of the later stages keep the
\* initial 0.0.
C27_FailureKeepsEarlierFields ==
    (op = "speed_test" /\ pc = "done") =>
        LET run == args.run
            k == FailedStage(run)
            zero == Frac(0, 1)
        IN  /\ ret.kind = "value"
            /\ ("error" \in DOMAIN ret.value) <=> (k < 4)
            /\ ret.value.ping =
                   IF k > 1 THEN Frac(run.ping.time * 1000, 1) ELSE zero
            /\ ret.value.download =
                   IF k > 2 /\ run.download.time > 0
                   THEN Frac(run.download.bytes * 8, run.download.time * 1000000)
                   ELSE zero
            /\ ret.value.upload =
                   IF k > 3 /\ run.upload.time > 0
                   THEN Frac(upload_size * 8, run.upload.time * 1000000)
                   ELSE zero

\* C27 witness: the upload fails after a ping and a download that were
\* measured.
C27_Witness ==
    /\ op = "speed_test" /\ pc = "done"
    /\ FailedStage(args.run) = 3
    /\ "error" \in DOMAIN ret.value
    /\ ret.value.ping = Frac(1000, 1)
    /\ ret.value.download = Frac(8192, 2000000)
    /\ ret.value.upload = Frac(0, 1)

\* C28: whenever a route_tracing result holds an error entry (host "Error",
\* hop 1), that entry is the only element of the list, so that no two entries
\* of it have the same hop number.
C28_ErrorEntryAlone ==
    (/\ op = "route_tracing" /\ pc = "done"
     /\ \E k \in 1..Len(ret.value) : "error" \in DOMAIN ret.value[k]) =>
        /\ Len(ret.value) = 1
        /\ \A k, l \in 1..Len(ret.value) : ret.value[k].hop = ret.value[l].hop => k = l

\* C29: in a session of the diagnostics menu or of the website menu, whatever
\* the sequence of choices, export_results writes a file only when the results
\* dict holds at least one stored result; Export Results on an empty dict shows
\* the error message and leaves the dict and the files as they are.
C29_ExportOnlyStoredResults ==
    /\ [](InSession => (menu.files > 0 => DOMAIN menu.results # {}))
    /\ [][(InSession /\ menu'.files # menu.files) =>
            /\ menu.choice = ExportChoice
            /\ DOMAIN menu.results # {}
            /\ menu'.results = menu.results]_vars
    /\ [][(InSession /\ menu.choice = ExportChoice /\ DOMAIN menu.results = {}) =>
            /\ menu'.message = "No results to export"
            /\ menu'.files = menu.files
            /\ menu'.results = menu.results]_vars

\* C29 witness: Export Results was chosen with nothing stored, and the error
\* message is on the screen.
C29_Witness ==
    /\ InSession
    /\ menu.choice = "prompt"
    /\ menu.message = "No results to export"
    /\ DOMAIN menu.results = {}
    /\ menu.files = 0

\* C30: every socket that scan_single_port opened is closed by the time the
\* function returns or raises: on the Open path, on the Closed path and on the
\* path where the connect attempt raises.
C30_SocketClosedOnEveryPath ==
    op = "scan_ports" =>
        \A i \in Units : unit[i] = "done" => args.answers[i].sock = "closed"

\* The same for the units that returned: the Open and the Closed path.
C30_SocketClosedOnReturn ==
    op = "scan_ports" =>
        \A i \in Units : (unit[i] = "done" /\ outcome[i].kind = "value") =>
            args.answers[i].sock = "closed"

=============================================================================
